---- MODULE Spec2Model ----
(***************************************************************************)
(* A model of ci/datamgr.py: the click command group with the commands     *)
(* postgres, sqlite, download and env.  One invocation of the script runs  *)
(* one command to completion.  Strings are TLA+ strings, handled with the  *)
(* sequence operators (Len, Head, Tail, SubSeq, \o); external effects      *)
(* (SQL statements, file removal, curl, tar extraction) are recorded, in   *)
(* order, in the variable log, and each of them may raise.                 *)
(***************************************************************************)
EXTENDS Integers, Sequences, FiniteSets, TLC

VARIABLES
    cmd,            \* the subcommand invoked
    pc,             \* position in the command
    order,          \* the order in which click processes the parameters
    exit_code,      \* the exit status of the process, once pc is done or failed
    raised,         \* the exception that ended the command, if any
    stdout,         \* what the command printed
    log,            \* the external operations completed so far, in order
    user,           \* getpass.getuser()
    path_exists,    \* whether the path argument (data_directory, directory) exists
    script_opens,   \* postgres, sqlite: whether click.File can open the script
    data_directory, \* env, postgres, sqlite: the data directory
    values,         \* env: the raw -e/--environment values
    pairs,          \* parse_env: the list of (name, value) pairs
    environment,    \* env: the dict returned by parse_env
    envars,         \* env: the dict that is printed
    tables,         \* postgres, sqlite: the table arguments
    database,       \* postgres, sqlite: the database name or path
    pos,            \* the position of the for loop in tables or data
    df,             \* the data frame read last, as the path it was read from
    db_exists,      \* sqlite: whether a file exists at the database path
    db_content,     \* sqlite: what the database file holds, oldest first
    argv,           \* download: the arguments given on the command line
    base_url,       \* download: the parameters of the command
    data,
    directory

run == <<cmd, user, script_opens, data_directory>>

envVars == <<values, pairs, environment, envars>>

dbVars == <<tables, database, df, db_exists, db_content>>

dlVars == <<argv, base_url, data, directory>>

vars == <<pc, order, exit_code, raised, stdout, log, path_exists, pos,
          run, envVars, dbVars, dlVars>>

----------------------------------------------------------------------------
(* Strings *)

\* The characters the model uses, in ascending code point order.
CodePoints == "\n-./0123456789:=ABCDEFGHIJKLMNOPQRSTUVWXYZ_abcdefghijklmnopqrstuvwxyz"

Ch(s, i) == SubSeq(s, i, i)

\* The rank of a character in code point order.
Ord(c) == CHOOSE i \in 1..Len(CodePoints) : Ch(CodePoints, i) = c

\* Python's s < t on str: lexicographic by code point.
RECURSIVE StrLess(_, _)
StrLess(s, t) ==
    IF Len(t) = 0 THEN FALSE
    ELSE IF Len(s) = 0 THEN TRUE
    ELSE IF Head(s) = Head(t) THEN StrLess(Tail(s), Tail(t))
    ELSE Ord(Head(s)) < Ord(Head(t))

\* The index of the first occurrence of character c in s, 0 when there is none.
RECURSIVE Find(_, _, _)
Find(s, c, i) ==
    IF i > Len(s) THEN 0
    ELSE IF Ch(s, i) = c THEN i
    ELSE Find(s, c, i + 1)

\* s.startswith(p) and s.endswith(p)
StartsWith(s, p) == Len(p) <= Len(s) /\ SubSeq(s, 1, Len(p)) = p

EndsWith(s, p) == Len(p) <= Len(s) /\ SubSeq(s, Len(s) - Len(p) + 1, Len(s)) = p

\* str(n) for a natural number n.
RECURSIVE IntStr(_)
IntStr(n) ==
    IF n < 10 THEN Ch("0123456789", n + 1)
    ELSE IntStr(n \div 10) \o Ch("0123456789", (n % 10) + 1)

\* sep.join(parts)
RECURSIVE Join(_, _)
Join(sep, parts) ==
    IF Len(parts) = 0 THEN ""
    ELSE IF Len(parts) = 1 THEN parts[1]
    ELSE parts[1] \o sep \o Join(sep, Tail(parts))

\* os.path.join(a, b) (posixpath)
PathJoin(a, b) ==
    IF StartsWith(b, "/") THEN b
    ELSE IF Len(a) = 0 \/ EndsWith(a, "/") THEN a \o b
    ELSE a \o "/" \o b

----------------------------------------------------------------------------
(* Python values and dicts *)

\* A dict value is a str or an int; str(value) is what env prints.
PyString(s) == [str |-> s]

PyInt(n) == [int |-> n]

PyStr(v) == IF DOMAIN v = {"int"} THEN IntStr(v.int) ELSE v.str

\* dict(ps) for a list ps of (key, value) pairs: the last pair of a key wins.
Dict(ps) ==
    [k \in {ps[i][1] : i \in 1..Len(ps)} |->
        ps[CHOOSE i \in 1..Len(ps) :
              /\ ps[i][1] = k
              /\ \A j \in (i + 1)..Len(ps) : ps[j][1] # k][2]]

\* An update that keeps the value of a key d already has.
UpdateKeep(d, e) ==
    [k \in DOMAIN d \cup DOMAIN e |-> IF k \in DOMAIN d THEN d[k] ELSE e[k]]

\* d.update(e)
Update(d, e) ==
    [k \in DOMAIN d \cup DOMAIN e |-> IF k \in DOMAIN e THEN e[k] ELSE d[k]]

\* The sorted sequence s with x put in its place.
Insert(s, x) ==
    LET n == Cardinality({i \in 1..Len(s) : StrLess(s[i], x)})
    IN  SubSeq(s, 1, n) \o <<x>> \o SubSeq(s, n + 1, Len(s))

\* sorted(...) of a set of distinct str keys.
RECURSIVE Sorted(_)
Sorted(S) ==
    IF S = {} THEN <<>>
    ELSE LET x == CHOOSE x \in S : TRUE
         IN  Insert(Sorted(S \ {x}), x)

----------------------------------------------------------------------------
(* The process *)

NoException == [exc |-> "None"]

\* A click.ClickException (exit code 1) with its message.
ClickException(message) == [exc |-> "ClickException", message |-> message]

\* click's BadParameter usage error for a parameter (exit code 2).
BadParameter(param) == [exc |-> "BadParameter", param |-> param]

\* The command returned: the process exits with status 0.
Return ==
    /\ pc' = "done"
    /\ exit_code' = 0
    /\ raised' = NoException

\* An exception left the command: click reports a ClickException with its own
\* exit code, and any other exception ends the interpreter with status 1.
Raise(e) ==
    /\ pc' = "failed"
    /\ raised' = e
    /\ exit_code' = IF e.exc = "BadParameter" THEN 2 ELSE 1

\* click processes the parameters in the order given on the command line;
\* the next one to process is the head of order.
Processing(param) == pc = "params" /\ order # <<>> /\ Head(order) = param

Processed ==
    /\ order' = Tail(order)
    /\ pc' = IF Len(order) = 1 THEN "body" ELSE "params"
    /\ UNCHANGED <<exit_code, raised>>

\* click.Path(exists=True) of the data_directory parameter of env, postgres
\* and sqlite.
data_directory_param ==
    /\ Processing("data_directory")
    /\ IF path_exists
       THEN Processed
       ELSE Raise(BadParameter("data_directory")) /\ UNCHANGED order
    /\ UNCHANGED <<stdout, log, path_exists, pos, run, envVars, dbVars, dlVars>>

\* click.File('rt') of the script option of postgres and sqlite.
script_param ==
    /\ Processing("script")
    /\ IF script_opens
       THEN Processed
       ELSE Raise(BadParameter("script")) /\ UNCHANGED order
    /\ UNCHANGED <<stdout, log, path_exists, pos, run, envVars, dbVars, dlVars>>

\* A call whose exception is caught: the command goes on to next.
CallSwallow(entry, next, exc) ==
    /\ \/ log' = Append(log, entry)
       \/ UNCHANGED log
    /\ IF next = "done" THEN Return
       ELSE pc' = next /\ UNCHANGED <<exit_code, raised>>

\* An external operation at position pc: it completes, which puts entry in
\* the log and moves the command to next, or it raises exc, which nothing in
\* the command catches.
Call(entry, next, exc) ==
    \/ /\ log' = Append(log, entry)
       /\ IF next = "done" THEN Return
          ELSE pc' = next /\ UNCHANGED <<exit_code, raised>>
    \/ /\ Raise([exc |-> exc, at |-> pc])
       /\ UNCHANGED log

----------------------------------------------------------------------------
(* env *)

\* A split at the last '=' instead of the first.
SplitLast(envar) ==
    LET eqs == {i \in 1..Len(envar) : Ch(envar, i) = "="}
    IN  IF eqs = {} THEN <<envar>>
        ELSE LET i == CHOOSE i \in eqs : \A j \in eqs : j <= i
             IN  <<SubSeq(envar, 1, i - 1), SubSeq(envar, i + 1, Len(envar))>>

\* name, value = envar.split('=', 1): the list that split returns.
Split1(envar) ==
    LET i == Find(envar, "=", 1)
    IN  IF i = 0 THEN <<envar>>
        ELSE <<SubSeq(envar, 1, i - 1), SubSeq(envar, i + 1, Len(envar))>>

\* The unpacking raises ValueError unless split returned two parts.
Malformed(envar) == Len(Split1(envar)) # 2

\* The message of the ClickException parse_env raises for envar.
FormatError(envar) ==
    "Environment variables must be of the form NAME=VALUE. "
        \o envar \o " is not in this format"

\* The pairs parse_env has appended after the first n values.
ParsedPairs(vs, n) == [i \in 1..n |-> <<Split1(vs[i])[1], Split1(vs[i])[2]>>]

\* A callback that skips a value it cannot split instead of raising.
parse_env_skip ==
    /\ cmd = "env"
    /\ Processing("environment")
    /\ LET good == SelectSeq(values, LAMBDA v : ~Malformed(v))
       IN  /\ pairs' = ParsedPairs(good, Len(good))
           /\ environment' = Dict(pairs')
           /\ Processed
    /\ UNCHANGED <<stdout, log, path_exists, pos, run, values, envars,
                   dbVars, dlVars>>

\* The callback of -e/--environment.
parse_env ==
    /\ cmd = "env"
    /\ Processing("environment")
    /\ LET bad == {i \in 1..Len(values) : Malformed(values[i])}
       IN  IF bad = {}
           THEN /\ pairs' = ParsedPairs(values, Len(values))
                /\ environment' = Dict(pairs')
                /\ Processed
           ELSE LET first == CHOOSE i \in bad : \A j \in bad : i <= j
                IN  /\ pairs' = ParsedPairs(values, first - 1)
                    /\ Raise(ClickException(FormatError(values[first])))
                    /\ UNCHANGED <<environment, order>>
    /\ UNCHANGED <<stdout, log, path_exists, pos, run, values, envars,
                   dbVars, dlVars>>

\* The built-in variables, in the order of the source.
Defaults(dir, usr) == <<
    <<"IBIS_TEST_IMPALA_HOST", PyString("impala")>>,
    <<"IBIS_TEST_NN_HOST", PyString("impala")>>,
    <<"IBIS_TEST_IMPALA_POST", PyInt(21050)>>,
    <<"IBIS_TEST_WEBHDFS_PORT", PyInt(50070)>>,
    <<"IBIS_TEST_WEBHDFS_USER", PyString("ubuntu")>>,
    <<"IBIS_TEST_SQLITE_DB_PATH", PyString(PathJoin(dir, "ibis_testing.db"))>>,
    <<"DIAMONDS_CSV", PyString(PathJoin(dir, "diamonds.csv"))>>,
    <<"BATTING_CSV", PyString(PathJoin(dir, "batting.csv"))>>,
    <<"AWARDS_PLAYERS_CSV", PyString(PathJoin(dir, "awards_players.csv"))>>,
    <<"FUNCTIONAL_ALLTYPES_CSV",
      PyString(PathJoin(dir, "functional_alltypes.csv"))>>,
    <<"IBIS_TEST_POSTGRES_DB", PyString("ibis_testing")>>,
    <<"IBIS_POSTGRES_USER", PyString(usr)>>,
    <<"IBIS_POSTGRES_PASS", PyString("")>> >>

\* envars.update(environment): the values parse_env returns are all str.
Merged(d, e) == Update(d, [k \in DOMAIN e |-> PyString(e[k])])

\* The string env echoes: one name=value per item, sorted by name.
Listing(d) ==
    LET names == Sorted(DOMAIN d)
    IN  Join("\n", [i \in 1..Len(names) |->
                       Join("=", <<names[i], PyStr(d[names[i]])>>)])

\* The body of the env command; click.echo ends the string with a newline.
env ==
    /\ cmd = "env"
    /\ pc = "body"
    /\ envars' = Merged(Dict(Defaults(data_directory, user)), environment)
    /\ stdout' = Listing(envars') \o "\n"
    /\ Return
    /\ UNCHANGED <<order, log, path_exists, pos, run, values, pairs,
                   environment, dbVars, dlVars>>

----------------------------------------------------------------------------
(* postgres *)

\* table_paths: data_directory/<table>.csv for each table argument.
TablePaths(dir, ts) == [k \in 1..Len(ts) |-> PathJoin(dir, ts[k] \o ".csv")]

\* A loop that leaves the last table out.
LoopShort(k, after) == IF k < Len(tables) THEN "read_csv" ELSE after

\* Where the for loop over zip(tables, table_paths) goes from position k:
\* to the body for the next table, or past the loop.
LoopFrom(k, after) == IF k <= Len(tables) THEN "read_csv" ELSE after

postgres_drop ==
    /\ cmd = "postgres"
    /\ pc = "body"
    /\ Call(<<"DROP DATABASE IF EXISTS", database>>, "create", "DBAPIError")
    /\ UNCHANGED <<order, stdout, path_exists, pos, run, envVars, dbVars, dlVars>>

postgres_create ==
    /\ cmd = "postgres"
    /\ pc = "create"
    /\ Call(<<"CREATE DATABASE", database>>, "script", "DBAPIError")
    /\ UNCHANGED <<order, stdout, path_exists, pos, run, envVars, dbVars, dlVars>>

\* script.read() and con.execute(script_text) in the new database.
postgres_script ==
    /\ cmd = "postgres"
    /\ pc = "script"
    /\ Call(<<"execute script", database>>, LoopFrom(1, "vacuum"), "DBAPIError")
    /\ pos' = 1
    /\ UNCHANGED <<order, stdout, path_exists, run, envVars, dbVars, dlVars>>

postgres_read_csv ==
    /\ cmd = "postgres"
    /\ pc = "read_csv"
    /\ LET path == TablePaths(data_directory, tables)[pos]
       IN  /\ Call(<<"read_csv", path>>, "to_sql", "IOError")
           /\ df' = IF pc' = "to_sql" THEN path ELSE df
    /\ UNCHANGED <<order, stdout, path_exists, pos, run, envVars, tables,
                   database, db_exists, db_content, dlVars>>

postgres_to_sql ==
    /\ cmd = "postgres"
    /\ pc = "to_sql"
    /\ Call(<<"to_sql append", tables[pos], df>>, LoopFrom(pos + 1, "vacuum"),
            "DBAPIError")
    /\ pos' = IF pc' = "failed" THEN pos ELSE pos + 1
    /\ UNCHANGED <<order, stdout, path_exists, run, envVars, dbVars, dlVars>>

postgres_vacuum ==
    /\ cmd = "postgres"
    /\ pc = "vacuum"
    /\ Call(<<"VACUUM FULL ANALYZE", database>>, "done", "DBAPIError")
    /\ UNCHANGED <<order, stdout, path_exists, pos, run, envVars, dbVars, dlVars>>

----------------------------------------------------------------------------
(* sqlite *)

\* The working directory of the process.
Cwd == "/ci"

\* os.path.abspath(p), for a path with no . or .. component.
AbsPath(p) == IF StartsWith(p, "/") THEN p ELSE PathJoin(Cwd, p)

\* A removal with no except clause: the OSError of os.remove leaves the command.
sqlite_remove_raise ==
    /\ cmd = "sqlite"
    /\ pc = "body"
    /\ database' = AbsPath(database)
    /\ IF db_exists
       THEN \/ /\ db_exists' = FALSE
               /\ db_content' = <<>>
               /\ log' = Append(log, <<"os.remove", database'>>)
               /\ pc' = "script"
               /\ UNCHANGED <<exit_code, raised>>
            \/ /\ Raise([exc |-> "OSError", at |-> pc])
               /\ UNCHANGED <<db_exists, db_content, log>>
       ELSE /\ pc' = "script"
            /\ UNCHANGED <<db_exists, db_content, log, exit_code, raised>>
    /\ UNCHANGED <<order, stdout, path_exists, pos, run, envVars, tables, df,
                   dlVars>>

\* A command that never removes the file it finds.
sqlite_remove_never ==
    /\ cmd = "sqlite"
    /\ pc = "body"
    /\ database' = AbsPath(database)
    /\ IF db_exists
       THEN log' = Append(log, <<"os.remove", database'>>)
       ELSE UNCHANGED log
    /\ pc' = "script"
    /\ UNCHANGED <<order, exit_code, raised, stdout, path_exists, pos, run,
                   envVars, tables, df, db_exists, db_content, dlVars>>

\* database = os.path.abspath(database); the file there, if any, is removed,
\* and an OSError of os.remove is passed over.
sqlite_remove ==
    /\ cmd = "sqlite"
    /\ pc = "body"
    /\ database' = AbsPath(database)
    /\ IF db_exists
       THEN \/ /\ db_exists' = FALSE
               /\ db_content' = <<>>
               /\ log' = Append(log, <<"os.remove", database'>>)
            \/ /\ log' = Append(log, <<"os.remove OSError pass", database'>>)
               /\ UNCHANGED <<db_exists, db_content>>
       ELSE UNCHANGED <<db_exists, db_content, log>>
    /\ pc' = "script"
    /\ UNCHANGED <<order, exit_code, raised, stdout, path_exists, pos, run,
                   envVars, tables, df, dlVars>>

\* script.read() and executescript(script_text); connecting creates the file.
sqlite_script ==
    /\ cmd = "sqlite"
    /\ pc = "script"
    /\ Call(<<"executescript", database>>, LoopFrom(1, "vacuum"),
            "OperationalError")
    /\ IF pc' = "failed" THEN UNCHANGED <<db_exists, db_content>>
       ELSE /\ db_exists' = TRUE
            /\ db_content' = Append(db_content, <<"script">>)
    /\ pos' = 1
    /\ UNCHANGED <<order, stdout, path_exists, run, envVars, tables, database,
                   df, dlVars>>

sqlite_read_csv ==
    /\ cmd = "sqlite"
    /\ pc = "read_csv"
    /\ LET path == TablePaths(data_directory, tables)[pos]
       IN  /\ Call(<<"read_csv", path>>, "to_sql", "IOError")
           /\ df' = IF pc' = "to_sql" THEN path ELSE df
    /\ UNCHANGED <<order, stdout, path_exists, pos, run, envVars, tables,
                   database, db_exists, db_content, dlVars>>

\* df.to_sql(table, con, if_exists='append') in a transaction of its own.
sqlite_to_sql ==
    /\ cmd = "sqlite"
    /\ pc = "to_sql"
    /\ Call(<<"to_sql append", tables[pos], df>>, LoopFrom(pos + 1, "vacuum"),
            "OperationalError")
    /\ IF pc' = "failed" THEN UNCHANGED <<pos, db_content>>
       ELSE /\ pos' = pos + 1
            /\ db_content' = Append(db_content, <<"rows", tables[pos], df>>)
    /\ UNCHANGED <<order, stdout, path_exists, run, envVars, tables, database,
                   df, db_exists, dlVars>>

sqlite_vacuum ==
    /\ cmd = "sqlite"
    /\ pc = "vacuum"
    /\ Call(<<"VACUUM", database>>, "vacuum_analyze", "OperationalError")
    /\ UNCHANGED <<order, stdout, path_exists, pos, run, envVars, dbVars, dlVars>>

sqlite_vacuum_analyze ==
    /\ cmd = "sqlite"
    /\ pc = "vacuum_analyze"
    /\ Call(<<"VACUUM ANALYZE", database>>, "done", "OperationalError")
    /\ UNCHANGED <<order, stdout, path_exists, pos, run, envVars, dbVars, dlVars>>

----------------------------------------------------------------------------
(* download *)

\* The default of the base_url argument.
DefaultBaseUrl == "https://storage.googleapis.com/ibis-ci-data"

\* The piece fetched when no -d/--data is given.
DefaultData == <<"ibis-testing-data.tar.gz">>

\* click binds the parameters: base_url and directory have defaults, data is
\* the tuple of the -d values.
download_params ==
    /\ cmd = "download"
    /\ pc = "params"
    /\ base_url' = IF argv.base_url = <<>> THEN DefaultBaseUrl
                   ELSE argv.base_url[1]
    /\ data' = argv.data
    /\ directory' = IF argv.directory = <<>> THEN "." ELSE argv.directory[1]
    /\ pc' = "body"
    /\ UNCHANGED <<order, exit_code, raised, stdout, log, path_exists, pos, run,
                   envVars, dbVars, argv>>

\* if not data: ...; if not os.path.exists(directory): os.mkdir(directory)
download_mkdir ==
    /\ cmd = "download"
    /\ pc = "body"
    /\ data' = IF data = <<>> THEN DefaultData ELSE data
    /\ IF path_exists
       THEN /\ pc' = "fetch"
            /\ UNCHANGED <<log, path_exists, exit_code, raised>>
       ELSE /\ Call(<<"mkdir", directory>>, "fetch", "OSError")
            /\ path_exists' = (pc' = "fetch")
    /\ pos' = 1
    /\ UNCHANGED <<order, stdout, run, envVars, dbVars, argv, base_url,
                   directory>>

\* A test for the suffix the default piece has only.
IsArchiveGz(piece) == EndsWith(piece, ".gz")

\* piece.endswith(('.tar', '.gz', '.bz2', '.xz'))
IsArchive(piece) ==
    \E suffix \in {".tar", ".gz", ".bz2", ".xz"} : EndsWith(piece, suffix)

\* A URL with no '/' between the base and the piece.
DataUrlBare(base, piece) == base \o piece

\* '{}/{}'.format(base_url, piece)
DataUrl(base, piece) == base \o "/" \o piece

\* Where the for loop over data goes after the piece at position pos.
NextPiece == IF pos < Len(data) THEN "fetch" ELSE "done"

\* curl(data_url, o=path, L=True)
download_fetch ==
    /\ cmd = "download"
    /\ pc = "fetch"
    /\ LET piece == data[pos]
       IN  /\ Call(<<"curl", DataUrl(base_url, piece),
                     PathJoin(directory, piece)>>,
                   IF IsArchive(piece) THEN "extract" ELSE NextPiece,
                   "ErrorReturnCode")
           /\ pos' = IF pc' \in {"failed", "extract"} THEN pos ELSE pos + 1
    /\ UNCHANGED <<order, stdout, path_exists, run, envVars, dbVars, dlVars>>

\* tarfile.open(path, mode='r|gz') and f.extractall(path=directory)
download_extract ==
    /\ cmd = "download"
    /\ pc = "extract"
    /\ Call(<<"extractall", PathJoin(directory, data[pos]), directory>>,
            NextPiece, "TarError")
    /\ pos' = IF pc' = "failed" THEN pos ELSE pos + 1
    /\ UNCHANGED <<order, stdout, path_exists, run, envVars, dbVars, dlVars>>

----------------------------------------------------------------------------
(* Invocations *)

\* The most -e options, table arguments and -d options of an invocation.
MaxEnv == 2

MaxTables == 2

MaxData == 2

\* The sequences over S of length at most n.
SeqsUpTo(S, n) == UNION {[1..m -> S] : m \in 0..n}

\* The path arguments tried, each with whether it exists.
PathPool == {
    [path |-> ".", exists |-> TRUE],
    [path |-> "/data/", exists |-> TRUE],
    [path |-> "missing", exists |-> FALSE] }

\* The -e values tried: without '=', with an empty name or value, with a
\* second '=', with a line break, repeating a name, and naming a built-in.
EnvPool == {
    "", "HOME", "=v", "A=", "C=1", "Z=a=b", "c=1", "N=x\ny", "IBIS_TEST=x",
    "IBIS_TEST_NN_HOST=nn", "IBIS_TEST_NN_HOST=", "IBIS_TEST_IMPALA_POST=1" }

TablePool == {"batting", "diamonds"}

DatabasePool == {"ibis_testing.db", "/tmp/ibis.db"}

\* The -d values tried: with each archive suffix, with none, with the
\* letters of a suffix but no dot, and an absolute one.
PiecePool == {
    "ibis-testing-data.tar.gz", "a.tar", "b.bz2", "c.xz", "d.csv", "gz",
    "/x.gz" }

\* What a database file left by an earlier run holds.
Stale == <<"stale">>

\* The state of a process that has not started its command.
Start ==
    /\ exit_code = -1
    /\ raised = NoException
    /\ stdout = ""
    /\ log = <<>>
    /\ pos = 1
    /\ user = "ci"
    /\ pairs = <<>>
    /\ environment = <<>>
    /\ envars = <<>>
    /\ df = ""
    /\ base_url = ""
    /\ data = <<>>
    /\ directory = ""

NoDb ==
    /\ tables = <<>>
    /\ database = ""
    /\ db_exists = FALSE
    /\ db_content = <<>>
    /\ script_opens = TRUE

NoArgv == argv = [base_url |-> <<>>, data |-> <<>>, directory |-> <<>>]

InitEnv ==
    /\ Start /\ NoDb /\ NoArgv
    /\ cmd = "env"
    /\ pc = "params"
    /\ values \in SeqsUpTo(EnvPool, MaxEnv)
    /\ \E p \in PathPool : data_directory = p.path /\ path_exists = p.exists
    /\ order \in {<<"data_directory", "environment">>} \cup
                 (IF values = <<>> THEN {}
                  ELSE {<<"environment", "data_directory">>})

InitDb(command) ==
    /\ Start /\ NoArgv
    /\ cmd = command
    /\ pc = "params"
    /\ values = <<>>
    /\ tables \in SeqsUpTo(TablePool, MaxTables)
    /\ \E p \in PathPool : data_directory = p.path /\ path_exists = p.exists
    /\ script_opens \in BOOLEAN
    /\ order \in {<<"script", "data_directory">>, <<"data_directory", "script">>}

InitPostgres ==
    /\ InitDb("postgres")
    /\ database = "ibis_testing"
    /\ db_exists = FALSE
    /\ db_content = <<>>

InitSqlite ==
    /\ InitDb("sqlite")
    /\ database \in DatabasePool
    /\ db_exists \in BOOLEAN
    /\ db_content = IF db_exists THEN <<Stale>> ELSE <<>>

InitDownload ==
    /\ Start /\ NoDb
    /\ cmd = "download"
    /\ pc = "params"
    /\ order = <<>>
    /\ values = <<>>
    /\ data_directory = ""
    /\ argv \in [base_url : {<<>>, <<"http://mirror/ci">>},
                 data : SeqsUpTo(PiecePool, MaxData),
                 directory : {<<>>, <<"data">>, <<"/tmp/">>}]
    /\ path_exists \in BOOLEAN

Init == InitEnv \/ InitPostgres \/ InitSqlite \/ InitDownload

NextEnv == data_directory_param \/ parse_env \/ env

NextPostgres ==
    \/ data_directory_param
    \/ script_param
    \/ postgres_drop
    \/ postgres_create
    \/ postgres_script
    \/ postgres_read_csv
    \/ postgres_to_sql
    \/ postgres_vacuum

NextSqlite ==
    \/ data_directory_param
    \/ script_param
    \/ sqlite_remove
    \/ sqlite_script
    \/ sqlite_read_csv
    \/ sqlite_to_sql
    \/ sqlite_vacuum
    \/ sqlite_vacuum_analyze

NextDownload == download_params \/ download_mkdir \/ download_fetch \/ download_extract

Next == NextEnv \/ NextPostgres \/ NextSqlite \/ NextDownload

\* One invocation of any command.
Spec == Init /\ [][Next]_vars

\* One invocation of one command.
EnvSpec == InitEnv /\ [][NextEnv]_vars

PostgresSpec == InitPostgres /\ [][NextPostgres]_vars

SqliteSpec == InitSqlite /\ [][NextSqlite]_vars

DownloadSpec == InitDownload /\ [][NextDownload]_vars

----------------------------------------------------------------------------
(* What the claims speak of *)

\* s contains the character c.
Contains(s, c) == \E m \in 1..Len(s) : Ch(s, m) = c

\* The position of the first '=' of a value that contains one.
FirstEq(v) ==
    CHOOSE m \in 1..Len(v) :
        Ch(v, m) = "=" /\ \A q \in 1..(m - 1) : Ch(v, q) # "="

NameOf(v) == SubSeq(v, 1, FirstEq(v) - 1)

ValueOf(v) == SubSeq(v, FirstEq(v) + 1, Len(v))

\* The -e values are all of the form NAME=VALUE.
WellFormed == \A j \in 1..Len(values) : Contains(values[j], "=")

\* The first -e value that is not of the form NAME=VALUE.
Offending ==
    values[CHOOSE j \in 1..Len(values) :
              /\ ~Contains(values[j], "=")
              /\ \A q \in 1..(j - 1) : Contains(values[q], "=")]

EnvEnded == cmd = "env" /\ pc \in {"done", "failed"}

\* parse_env has been called and has returned or raised.
ParseEnvRan ==
    /\ cmd = "env"
    /\ \/ raised.exc = "ClickException"
       \/ \A q \in 1..Len(order) : order[q] # "environment"

\* The names given with -e, and the names of the built-in variables.
UserNames == {NameOf(values[j]) : j \in 1..Len(values)}

BuiltIn == Defaults(data_directory, user)

BuiltInNames == {BuiltIn[d][1] : d \in 1..Len(BuiltIn)}

\* The lines of a text, each ended by a line break.
Lines(text) ==
    LET nl == {p \in 1..Len(text) : Ch(text, p) = "\n"}
        at(n) == CHOOSE p \in nl : Cardinality({q \in nl : q < p}) = n - 1
    IN  [n \in 1..Cardinality(nl) |->
            SubSeq(text, IF n = 1 THEN 1 ELSE at(n - 1) + 1, at(n) - 1)]

\* entry is printed: it fills whole lines of stdout, from the start of a line
\* to a line break.
Printed(entry) ==
    \/ StartsWith(stdout, entry \o "\n")
    \/ \E p \in {q \in 1..Len(stdout) : Ch(stdout, q) = "\n"} :
          /\ p + Len(entry) + 1 <= Len(stdout)
          /\ SubSeq(stdout, p, p + Len(entry) + 1) = "\n" \o entry \o "\n"

(* C1: an env invocation with a -e value not of the form NAME=VALUE ends with
   a non-zero exit status and prints nothing, and when parse_env is what
   rejects it (the data directory exists) the exception is the ClickException
   that names the first offending value; an invocation whose -e values are
   all well formed and whose data directory exists exits with status 0. *)
C1_MalformedRejected ==
    EnvEnded =>
        /\ ~WellFormed =>
              /\ pc = "failed"
              /\ exit_code # 0
              /\ stdout = ""
              /\ raised.exc \in {"ClickException", "BadParameter"}
              /\ path_exists =>
                    /\ raised.exc = "ClickException"
                    /\ raised.message =
                          "Environment variables must be of the form NAME=VALUE. "
                              \o Offending \o " is not in this format"
        /\ (WellFormed /\ path_exists) => (pc = "done" /\ exit_code = 0)

\* parse_env has rejected the second of two -e values, after the data
\* directory was accepted.
C1_Witness ==
    /\ EnvEnded
    /\ values = <<"A=", "HOME">>
    /\ order = <<"environment">>
    /\ raised.exc = "ClickException"
    /\ exit_code = 1

\* The env command has printed its listing.
EnvDone == cmd = "env" /\ pc = "done"

\* The listing holds one NAME=VALUE line per name of names, in strictly
\* ascending order of NAME.
SortedListing(names) ==
    LET lines == Lines(stdout)
    IN  /\ \A n \in 1..Len(lines) : Contains(lines[n], "=")
        /\ \A n \in 1..(Len(lines) - 1) :
              StrLess(NameOf(lines[n]), NameOf(lines[n + 1]))
        /\ {NameOf(lines[n]) : n \in 1..Len(lines)} = names
        /\ Len(lines) = Cardinality(names)

(* C2: for every data directory and every list of well-formed -e values, env
   prints NAME=VALUE lines in strictly ascending order of NAME, exactly one
   line per distinct name among the built-in and the user-supplied names. *)
C2_SortedListing == EnvDone => SortedListing(BuiltInNames \cup UserNames)

(* C2, for the invocations none of whose -e values holds a line break: there
   the listing is as C2 says. *)
C2_SortedListingNoLineBreak ==
    (EnvDone /\ \A j \in 1..Len(values) : ~Contains(values[j], "\n"))
        => SortedListing(BuiltInNames \cup UserNames)

\* A listing with user names before, between and after the built-in names.
C2_NoLineBreakWitness ==
    /\ EnvDone
    /\ values = <<"c=1", "C=1">>
    /\ Len(Lines(stdout)) = 15

(* C3: a name given with -e is printed with the user's value, that of its
   last occurrence on the command line, whether or not it is the name of a
   built-in variable; every built-in variable whose name the user did not
   give is printed with its built-in value. *)
C3_UserOverrides ==
    EnvDone =>
        /\ \A j \in 1..Len(values) :
              (\A q \in (j + 1)..Len(values) :
                    NameOf(values[q]) # NameOf(values[j]))
              => /\ PyStr(envars[NameOf(values[j])]) = ValueOf(values[j])
                 /\ Printed(NameOf(values[j]) \o "=" \o ValueOf(values[j]))
        /\ \A d \in 1..Len(BuiltIn) :
              BuiltIn[d][1] \notin UserNames
              => /\ envars[BuiltIn[d][1]] = BuiltIn[d][2]
                 /\ Printed(BuiltIn[d][1] \o "=" \o PyStr(BuiltIn[d][2]))
        /\ "IBIS_TEST_IMPALA_POST" \notin UserNames
              => Printed("IBIS_TEST_IMPALA_POST=21050")
        /\ "IBIS_TEST_NN_HOST" \notin UserNames
              => Printed("IBIS_TEST_NN_HOST=impala")

\* A built-in name given twice: the second value, the empty string, is printed.
C3_Witness ==
    /\ EnvDone
    /\ values = <<"IBIS_TEST_NN_HOST=nn", "IBIS_TEST_NN_HOST=">>
    /\ Printed("IBIS_TEST_NN_HOST=")
    /\ ~Printed("IBIS_TEST_NN_HOST=impala")
    /\ Printed("IBIS_TEST_IMPALA_HOST=impala")

(* C10: parse_env accepts a value if and only if it contains '=', and splits
   an accepted value at its first '=': the name is the text before it, the
   value all the text after it, further '=' included; a value with an empty
   name is accepted. *)
C10_SplitAtFirstEq ==
    ParseEnvRan =>
        /\ \A j \in 1..Len(pairs) :
              /\ Contains(values[j], "=")
              /\ \A m \in 1..Len(values[j]) :
                    (/\ Ch(values[j], m) = "="
                     /\ ~Contains(SubSeq(values[j], 1, m - 1), "="))
                    => pairs[j] = <<SubSeq(values[j], 1, m - 1),
                                    SubSeq(values[j], m + 1, Len(values[j]))>>
        /\ IF raised.exc = "ClickException"
           THEN /\ Len(pairs) < Len(values)
                /\ ~Contains(values[Len(pairs) + 1], "=")
           ELSE Len(pairs) = Len(values)

\* parse_env has accepted a value with a second '=' and one with an empty name.
C10_Witness ==
    /\ ParseEnvRan
    /\ values = <<"Z=a=b", "=v">>
    /\ pairs = << <<"Z", "a=b">>, <<"", "v">> >>

----------------------------------------------------------------------------
(* The steps the claims expect of postgres, sqlite and download *)

\* s is an initial part of t.
Prefix(s, t) == Len(s) <= Len(t) /\ SubSeq(t, 1, Len(s)) = s

\* The path of name in the directory dir.
Under(dir, name) ==
    IF SubSeq(dir, Len(dir), Len(dir)) = "/" THEN dir \o name
    ELSE dir \o "/" \o name

\* Reading <table>.csv of the data directory and appending it to the table,
\* for each table argument in order.
LoadPlan ==
    [n \in 1..(2 * Len(tables)) |->
        LET t == tables[(n + 1) \div 2]
            csv == Under(data_directory, t \o ".csv")
        IN  IF n % 2 = 1 THEN <<"read_csv", csv>>
            ELSE <<"to_sql append", t, csv>>]

PostgresPlan ==
    << <<"DROP DATABASE IF EXISTS", database>>,
       <<"CREATE DATABASE", database>>,
       <<"execute script", database>> >>
        \o LoadPlan \o << <<"VACUUM FULL ANALYZE", database>> >>

SqlitePlan ==
    << <<"executescript", database>> >>
        \o LoadPlan
        \o << <<"VACUUM", database>>, <<"VACUUM ANALYZE", database>> >>

\* The base URL, pieces and directory that the command line stands for.
GivenBaseUrl ==
    IF argv.base_url = <<>> THEN "https://storage.googleapis.com/ibis-ci-data"
    ELSE argv.base_url[1]

GivenData ==
    IF argv.data = <<>> THEN <<"ibis-testing-data.tar.gz">> ELSE argv.data

GivenDirectory == IF argv.directory = <<>> THEN "." ELSE argv.directory[1]

\* Where a piece is saved: in the directory, unless the piece is itself an
\* absolute path, which os.path.join returns as it is.
SavedAt(piece) ==
    IF SubSeq(piece, 1, 1) = "/" THEN piece ELSE Under(GivenDirectory, piece)

HasArchiveSuffix(piece) ==
    \/ (Len(piece) >= 4 /\ SubSeq(piece, Len(piece) - 3, Len(piece)) = ".tar")
    \/ (Len(piece) >= 3 /\ SubSeq(piece, Len(piece) - 2, Len(piece)) = ".gz")
    \/ (Len(piece) >= 4 /\ SubSeq(piece, Len(piece) - 3, Len(piece)) = ".bz2")
    \/ (Len(piece) >= 3 /\ SubSeq(piece, Len(piece) - 2, Len(piece)) = ".xz")

\* Each piece in order: fetched, then extracted if its name has an archive
\* suffix.
RECURSIVE PiecePlan(_)
PiecePlan(ps) ==
    IF ps = <<>> THEN <<>>
    ELSE << <<"curl", GivenBaseUrl \o "/" \o Head(ps), SavedAt(Head(ps))>> >>
         \o (IF HasArchiveSuffix(Head(ps))
             THEN << <<"extractall", SavedAt(Head(ps)), GivenDirectory>> >>
             ELSE <<>>)
         \o PiecePlan(Tail(ps))

DownloadPlan == PiecePlan(GivenData)

\* The log after the removal of the old database file or the creation of the
\* target directory, when the command began with one.
Steps ==
    IF log # <<>> /\ log[1][1] \in {"os.remove", "os.remove OSError pass", "mkdir"}
    THEN Tail(log)
    ELSE log

Plan ==
    IF cmd = "postgres" THEN PostgresPlan
    ELSE IF cmd = "sqlite" THEN SqlitePlan
    ELSE DownloadPlan

\* The fetches of the log.
Fetches == SelectSeq(log, LAMBDA e : e[1] = "curl")

(* C4: with no base_url argument every fetch is from
   https://storage.googleapis.com/ibis-ci-data, with no -d option the single
   piece ibis-testing-data.tar.gz is fetched; each fetch is of
   base_url + '/' + piece and is saved to the piece's path in the directory;
   a given base_url and given -d values are the only ones used. *)
C4_DownloadDefaults ==
    cmd = "download" =>
        /\ Len(Fetches) <= Len(GivenData)
        /\ \A n \in 1..Len(Fetches) :
              Fetches[n] = <<"curl", GivenBaseUrl \o "/" \o GivenData[n],
                             SavedAt(GivenData[n])>>
        /\ pc = "done" => Len(Fetches) = Len(GivenData)

\* A finished download with neither base_url nor -d nor -D given.
C4_Witness ==
    /\ cmd = "download"
    /\ pc = "done"
    /\ argv = [base_url |-> <<>>, data |-> <<>>, directory |-> <<>>]
    /\ Fetches = << <<"curl",
          "https://storage.googleapis.com/ibis-ci-data/ibis-testing-data.tar.gz",
          "./ibis-testing-data.tar.gz">> >>

(* C8: in download the target directory exists before the first fetch, being
   created first when it is missing; the pieces are handled in the order
   given, each fetched before it is extracted and before the next is fetched;
   a piece whose name ends in .tar, .gz, .bz2 or .xz is extracted into the
   target directory right after its fetch, and no other piece is extracted. *)
C8_DownloadOrder ==
    cmd = "download" =>
        /\ Prefix(Steps, DownloadPlan)
        /\ pc = "done" => Steps = DownloadPlan
        /\ Fetches # <<>> => path_exists
        /\ \A n \in 1..Len(log) :
              log[n][1] = "mkdir" => (n = 1 /\ log[n][2] = GivenDirectory)
        /\ (~path_exists /\ pc # "failed") => log = <<>>

\* A finished download into a directory that was missing, of an archive and
\* of a piece that is none.
C8_Witness ==
    /\ cmd = "download"
    /\ pc = "done"
    /\ log = << <<"mkdir", "data">>,
                <<"curl", "http://mirror/ci/a.tar", "data/a.tar">>,
                <<"extractall", "data/a.tar", "data">>,
                <<"curl", "http://mirror/ci/d.csv", "data/d.csv">> >>

(* C7: a run of postgres drops the target database if it exists, creates it,
   executes the script in it, loads each table argument in command-line order
   (read from data_directory/T.csv, appended to table T) and then runs VACUUM
   FULL ANALYZE, in this order and each once. *)
C7_PostgresOrder ==
    cmd = "postgres" =>
        /\ Prefix(log, PostgresPlan)
        /\ pc = "done" => log = PostgresPlan

\* A finished postgres run with two tables.
C7_Witness ==
    /\ cmd = "postgres"
    /\ pc = "done"
    /\ data_directory = "/data/"
    /\ log = << <<"DROP DATABASE IF EXISTS", "ibis_testing">>,
                <<"CREATE DATABASE", "ibis_testing">>,
                <<"execute script", "ibis_testing">>,
                <<"read_csv", "/data/diamonds.csv">>,
                <<"to_sql append", "diamonds", "/data/diamonds.csv">>,
                <<"read_csv", "/data/batting.csv">>,
                <<"to_sql append", "batting", "/data/batting.csv">>,
                <<"VACUUM FULL ANALYZE", "ibis_testing">> >>

\* The removal of the old database file failed and was passed over.
RemovalIgnored == log # <<>> /\ log[1][1] = "os.remove OSError pass"

(* C5: in sqlite no error of removing the old database file ends the command:
   after a removal that failed the command runs the script, loads every table
   and vacuums, the steps it runs after a removal that succeeded. *)
C5_RemovalFailureIgnored ==
    cmd = "sqlite" =>
        /\ (pc = "failed" /\ raised.exc # "BadParameter") => raised.at # "body"
        /\ Prefix(Steps, SqlitePlan)
        /\ pc = "done" => (Steps = SqlitePlan /\ exit_code = 0)
        /\ (RemovalIgnored /\ pc = "failed") => Len(Steps) < Len(SqlitePlan)

\* A sqlite run that finished although the old file could not be removed.
C5_Witness ==
    /\ cmd = "sqlite"
    /\ pc = "done"
    /\ RemovalIgnored
    /\ tables = <<"batting", "diamonds">>
    /\ exit_code = 0

\* What this run's script and loads put in the database.
ThisRun ==
    << <<"script">> >> \o
        [n \in 1..Len(tables) |->
            <<"rows", tables[n], Under(data_directory, tables[n] \o ".csv")>>]

(* C9: when sqlite completes, the database at the target path holds only
   what this run's script and CSV loads produced, nothing left over from a
   file that was at that path before the run. *)
C9_OnlyThisRun == (cmd = "sqlite" /\ pc = "done") => db_content = ThisRun

(* C9 as amended: when sqlite completes and the file that was at the target
   path, if any, was removed, the database holds only what this run's script
   and loads produced. *)
C9_OnlyThisRunIfRemoved ==
    (cmd = "sqlite" /\ pc = "done" /\ ~RemovalIgnored) =>
        /\ db_exists
        /\ db_content = ThisRun

\* A finished sqlite run that removed the old file.
C9_Witness ==
    /\ cmd = "sqlite"
    /\ pc = "done"
    /\ log[1] = <<"os.remove", "/ci/ibis_testing.db">>
    /\ tables = <<"batting", "diamonds">>
    /\ db_content = << <<"script">>,
                       <<"rows", "batting", "./batting.csv">>,
                       <<"rows", "diamonds", "./diamonds.csv">> >>

\* The log entry of the step at which a command was when it raised.
StepAt(at) ==
    CASE at = "body" -> IF cmd = "postgres" THEN "DROP DATABASE IF EXISTS"
                        ELSE "mkdir"
      [] at = "create" -> "CREATE DATABASE"
      [] at = "script" -> IF cmd = "postgres" THEN "execute script"
                          ELSE "executescript"
      [] at = "read_csv" -> "read_csv"
      [] at = "to_sql" -> "to_sql append"
      [] at = "vacuum" -> IF cmd = "postgres" THEN "VACUUM FULL ANALYZE"
                          ELSE "VACUUM"
      [] at = "vacuum_analyze" -> "VACUUM ANALYZE"
      [] at = "fetch" -> "curl"
      [] at = "extract" -> "extractall"

(* C6: in postgres, sqlite and download a step that fails ends the command:
   the process exits non-zero, the steps before the failed one are the only
   ones done, and a command that exits with status 0 has done every step. *)
C6_FailureStops ==
    cmd \in {"postgres", "sqlite", "download"} =>
        /\ pc = "failed" => exit_code # 0
        /\ (pc = "failed" /\ raised.exc # "BadParameter") =>
              /\ Prefix(Steps, Plan)
              /\ Len(Steps) < Len(Plan)
              /\ IF StepAt(raised.at) = "mkdir" THEN log = <<>>
                 ELSE Plan[Len(Steps) + 1][1] = StepAt(raised.at)
        /\ pc = "done" => (exit_code = 0 /\ Steps = Plan)

\* postgres has stopped at the load of its second table.
C6_Witness ==
    /\ cmd = "postgres"
    /\ pc = "failed"
    /\ raised = [exc |-> "DBAPIError", at |-> "to_sql"]
    /\ exit_code = 1
    /\ Len(log) = 6

====
